---- MODULE Spec2Model ----
(***************************************************************************)
(* Token-gated download service: the token store (database.ts, relational, *)
(* and database.js, JSON file), the authenticateToken middleware, the      *)
(* admin endpoints, GET /validate-token and the POST /tiktok handler with  *)
(* its delivery callback (index.ts and the legacy index.js).               *)
(*                                                                         *)
(* Time is a discrete clock `now`.  One tick is the resolution at which    *)
(* the service reads the clock; the 30-day lifetime is TokenTtl ticks.     *)
(* An optional value (a header, a body field) is a set: {} when absent,    *)
(* {v} when present.                                                       *)
(***************************************************************************)
EXTENDS Integers, Sequences, FiniteSets, TLC

\* ---- bounds of the model ------------------------------------------------
MaxTime == 3
MaxIssues == 1
MaxAdminIssues == 2
MaxRequests == 2
MaxQuota == 2
MaxPolls == 3

\* ---- program constants --------------------------------------------------
\* for (let i = 0; i < 60; i++)
PollLimit == 60
\* expiresIn: "30d" and setDate(getDate() + 30), in ticks
TokenTtl == 3
ADMIN_EMAIL == "admin@svc"
ADMIN_PASS == "secret"

Emails == {"a@x", "b@x"}
AdminEmails == {ADMIN_EMAIL, "bad"}
AdminPasses == {ADMIN_PASS, "bad"}
\* new Date(); setDate(getDate() + 30) is local-calendar arithmetic: across
\* a daylight-saving change the stored expiry is 30 days minus or plus one
\* hour, while the signed expiry is always iat + 30 * 24h.  One hour is two
\* ticks here.
DstSkew == {-2, 0, 2}
Backends == {"ts", "js"}

VARIABLES backend, now, store, issued, req, admin, dir, fsclock, harvest, pair

\* the download directory, the file-system clock and the harvest of each
\* request
harvestVars == <<dir, fsclock, harvest>>

vars == <<backend, now, store, issued, req, admin, harvestVars, pair>>

\* ---- credentials (jsonwebtoken) ----------------------------------------
\* jwt.sign({email}, JWT_SECRET, {expiresIn: "30d"}): the credential is a
\* deterministic function of the payload {email, iat, exp = iat + 30d}.
Sign(email, iat) == [email |-> email, iat |-> iat, sig |-> TRUE]

\* a header value that is not a credential signed by this service
Garbled == [email |-> "", iat |-> 0, sig |-> FALSE]

\* jwt.verify(token, JWT_SECRET): TRUE when it returns the decoded payload,
\* FALSE when it throws (bad signature, or clock >= exp)
JwtVerifies(token, clock) == token.sig /\ ~(clock >= token.iat + TokenTtl)

\* ---- the token store ----------------------------------------------------
RECURSIVE FindIndex(_, _, _)
\* Array.prototype.findIndex / find over data.tokens; 0 when none matches
FindIndex(tokens, token, i) ==
    IF i > Len(tokens) THEN 0
    ELSE IF tokens[i].token = token THEN i
    ELSE FindIndex(tokens, token, i + 1)

\* the stored quota that is left for a record, in the backend's representation
RemainingOf(rec) ==
    IF backend = "ts" THEN rec.allowed_requests
    ELSE rec.allowed_requests - rec.used_requests

\* getToken: {} for null/undefined, {record} otherwise
getTokenExpiredMutant(tokens, token, clock) ==
    LET i == FindIndex(tokens, token, 1)
    IN  IF i = 0 THEN {} ELSE {tokens[i]}

getToken(tokens, token, clock) ==
    LET i == FindIndex(tokens, token, 1)
    IN  IF i = 0 THEN {}
        ELSE IF tokens[i].expires_at < clock THEN {}
        ELSE {tokens[i]}

\* saveToken: the new table/array, and whether the call threw.  The
\* relational table has a unique token column (findUnique({where: {token}})),
\* so create() rejects a token string that is already stored; the JSON store
\* pushes unconditionally.
saveToken(tokens, token, email, allowedRequests, expiresAt) ==
    LET rec == [token |-> token, email |-> email,
                allowed_requests |-> allowedRequests, used_requests |-> 0,
                expires_at |-> expiresAt]
    IN  IF backend = "ts" /\ FindIndex(tokens, token, 1) # 0
        THEN [tokens |-> tokens, threw |-> TRUE]
        ELSE [tokens |-> Append(tokens, rec), threw |-> FALSE]

\* saveToken when the store cannot be written: prisma.token.create rejects
\* and database.ts rethrows; database.js saveData catches the error of
\* writeFileSync and returns, the file keeps its old contents
saveTokenWriteFails(tokens, token, email, allowedRequests, expiresAt) ==
    [tokens |-> tokens, threw |-> (backend = "ts")]

\* getToken when the lookup raises: database.ts catches the error of
\* findUnique and returns null; database.js loadData catches the read or
\* parse error and returns {tokens: []}, in which find matches nothing
getTokenLookupFailsOpenMutant(tokens, token, clock) ==
    LET i == FindIndex(tokens, token, 1)
    IN  IF i = 0 THEN {} ELSE {tokens[i]}

getTokenLookupFails(tokens, token, clock) == {}

\* incrementUsage: relational UPDATE ... SET allowed_requests =
\* allowed_requests - 1 (throws when no row matches); JSON store
\* used_requests += 1 on the first matching entry (no-op when none).
incrementUsageGuardedMutant(tokens, token) ==
    LET i == FindIndex(tokens, token, 1)
    IN  IF i = 0 THEN [tokens |-> tokens, threw |-> (backend = "ts")]
        ELSE IF RemainingOf(tokens[i]) <= 0
        THEN [tokens |-> tokens, threw |-> FALSE]
        ELSE IF backend = "ts"
        THEN [tokens |-> [tokens EXCEPT ![i].allowed_requests = @ - 1],
              threw |-> FALSE]
        ELSE [tokens |-> [tokens EXCEPT ![i].used_requests = @ + 1],
              threw |-> FALSE]

incrementUsage(tokens, token) ==
    LET i == FindIndex(tokens, token, 1)
    IN  IF i = 0 THEN [tokens |-> tokens, threw |-> (backend = "ts")]
        ELSE IF backend = "ts"
        THEN [tokens |-> [tokens EXCEPT ![i].allowed_requests = @ - 1],
              threw |-> FALSE]
        ELSE [tokens |-> [tokens EXCEPT ![i].used_requests = @ + 1],
              threw |-> FALSE]

\* whether cleanupExpired keeps a record: the relational store deletes
\* where expires_at < now, the JSON store keeps where expires_at > now
Kept(rec, clock) ==
    IF backend = "ts" THEN ~(rec.expires_at < clock)
    ELSE rec.expires_at > clock

RECURSIVE cleanupExpired(_, _)
cleanupExpired(tokens, clock) ==
    IF tokens = <<>> THEN <<>>
    ELSE (IF Kept(Head(tokens), clock) THEN <<Head(tokens)>> ELSE <<>>)
         \o cleanupExpired(Tail(tokens), clock)

\* ---- responses ----------------------------------------------------------
\* details is the `details` member of a 500 body ("" when the body has none)
NoRes ==
    [status |-> 0, error |-> "", email |-> "", remaining |-> 0,
     expires_at |-> 0, details |-> ""]

Json(status, error) ==
    [status |-> status, error |-> error, email |-> "", remaining |-> 0,
     expires_at |-> 0, details |-> ""]

\* ---- authenticateToken --------------------------------------------------
\* the quota test of the middleware on a fetched record
QuotaExhaustedMutant(rec) == FALSE

QuotaExhausted(rec) ==
    IF backend = "ts" THEN rec.allowed_requests <= 0
    ELSE rec.used_requests >= rec.allowed_requests

\* The decision of the middleware for a header value: the response it sends
\* (status 0 when it calls next()), whether db.getToken was called, and what
\* it attaches to the request.
authenticateTokenOrderMutant(header, tokens, clock) ==
    IF header = {}
    THEN [res |-> Json(401, "API token is required"), consulted |-> FALSE,
          userToken |-> {}, userEmail |-> ""]
    ELSE
      LET token == CHOOSE t \in header : TRUE
          tokenData == getToken(tokens, token, clock)
      IN  IF tokenData = {}
          THEN [res |-> Json(403, "Invalid or revoked token"),
                consulted |-> TRUE, userToken |-> {}, userEmail |-> ""]
          ELSE IF ~JwtVerifies(token, clock)
          THEN [res |-> Json(401, "Invalid or expired token"),
                consulted |-> TRUE, userToken |-> {}, userEmail |-> ""]
          ELSE IF QuotaExhausted(CHOOSE d \in tokenData : TRUE)
          THEN [res |-> Json(402, "Request limit exceeded"),
                consulted |-> TRUE, userToken |-> {}, userEmail |-> ""]
          ELSE [res |-> NoRes, consulted |-> TRUE,
                userToken |-> {token}, userEmail |-> token.email]

authenticateToken(header, tokens, clock) ==
    IF header = {}
    THEN [res |-> Json(401, "API token is required"), consulted |-> FALSE,
          userToken |-> {}, userEmail |-> ""]
    ELSE
      LET token == CHOOSE t \in header : TRUE
      IN  IF ~JwtVerifies(token, clock)
          THEN [res |-> Json(401, "Invalid or expired token"),
                consulted |-> FALSE, userToken |-> {}, userEmail |-> ""]
          ELSE
            LET tokenData == getToken(tokens, token, clock)
            IN  IF tokenData = {}
                THEN [res |-> Json(403, "Invalid or revoked token"),
                      consulted |-> TRUE, userToken |-> {}, userEmail |-> ""]
                ELSE IF QuotaExhausted(CHOOSE d \in tokenData : TRUE)
                THEN [res |-> Json(402, "Request limit exceeded"),
                      consulted |-> TRUE, userToken |-> {}, userEmail |-> ""]
                ELSE [res |-> NoRes, consulted |-> TRUE,
                      userToken |-> {token}, userEmail |-> token.email]

\* the middleware when the store lookup raises (the lookup is reached only
\* with a header whose signature verifies)
authenticateTokenLookupFails(header, tokens, clock) ==
    IF header = {} \/ \E t \in header : ~JwtVerifies(t, clock)
    THEN authenticateToken(header, tokens, clock)
    ELSE
      LET token == CHOOSE t \in header : TRUE
          tokenData == getTokenLookupFails(tokens, token, clock)
      IN  IF tokenData = {}
          THEN [res |-> Json(403, "Invalid or revoked token"),
                consulted |-> TRUE, userToken |-> {}, userEmail |-> ""]
          ELSE IF QuotaExhausted(CHOOSE d \in tokenData : TRUE)
          THEN [res |-> Json(402, "Request limit exceeded"),
                consulted |-> TRUE, userToken |-> {}, userEmail |-> ""]
          ELSE [res |-> NoRes, consulted |-> TRUE,
                userToken |-> {token}, userEmail |-> token.email]

\* ---- admin endpoints ----------------------------------------------------
\* JavaScript !x for an optional body field: absent or the empty string
\* (a text field), absent or 0 (a number field)
FalsyText(field) == field = {} \/ field = {""}

FalsyNumber(field) == field = {} \/ field = {0}

NoAdminRes == [status |-> 0, error |-> "", token |-> {}, allowedRequests |-> {},
               listed |-> {}]

AdminJson(status, error) ==
    [status |-> status, error |-> error, token |-> {}, allowedRequests |-> {},
     listed |-> {}]

AdminRejectedMutant(body) == FALSE

AdminRejected(body) ==
    body.adminEmail # ADMIN_EMAIL \/ body.adminPass # ADMIN_PASS

\* POST /admin/generate-token (index.js: POST /generate-api-token): the new
\* store contents and the response.  skew is the calendar skew of the
\* stored expiry.
generateToken(body, tokens, clock, skew) ==
    IF AdminRejected(body)
    THEN [tokens |-> tokens, res |-> AdminJson(401, "Invalid admin credentials")]
    ELSE IF FalsyText(body.email) \/ FalsyNumber(body.allowedRequests)
    THEN [tokens |-> tokens,
          res |-> AdminJson(400, "Email and allowedRequests are required")]
    ELSE
      LET email == CHOOSE e \in body.email : TRUE
          allowedRequests == CHOOSE n \in body.allowedRequests : TRUE
          token == Sign(email, clock)
          expiresAt == clock + TokenTtl + skew
          saved == saveToken(tokens, token, email, allowedRequests, expiresAt)
      IN  IF saved.threw
          THEN [tokens |-> saved.tokens,
                res |-> AdminJson(500, "Failed to store token")]
          ELSE [tokens |-> saved.tokens,
                res |-> [status |-> 200, error |-> "", token |-> {token},
                         allowedRequests |-> {allowedRequests}, listed |-> {}]]

\* the same endpoint when the store cannot be written
generateTokenWriteFails(body, tokens, clock, skew) ==
    IF AdminRejected(body)
       \/ FalsyText(body.email) \/ FalsyNumber(body.allowedRequests)
    THEN generateToken(body, tokens, clock, skew)
    ELSE
      LET email == CHOOSE e \in body.email : TRUE
          allowedRequests == CHOOSE n \in body.allowedRequests : TRUE
          token == Sign(email, clock)
          expiresAt == clock + TokenTtl + skew
          saved == saveTokenWriteFails(tokens, token, email, allowedRequests,
                                       expiresAt)
      IN  IF saved.threw
          THEN [tokens |-> saved.tokens,
                res |-> AdminJson(500, "Failed to store token")]
          ELSE [tokens |-> saved.tokens,
                res |-> [status |-> 200, error |-> "", token |-> {token},
                         allowedRequests |-> {allowedRequests}, listed |-> {}]]

\* POST /admin/tokens: the response; listed is {} when no list is returned
adminTokens(body, tokens) ==
    IF AdminRejected(body)
    THEN AdminJson(401, "Invalid admin credentials")
    ELSE [status |-> 200, error |-> "", token |-> {}, allowedRequests |-> {},
          listed |-> {tokens}]

\* GET /validate-token handler body (after the middleware passed)
validateToken(userToken, tokens, clock) ==
    LET tokenData == getToken(tokens, CHOOSE t \in userToken : TRUE, clock)
    IN  IF tokenData = {} THEN Json(404, "Token data missing")
        ELSE LET d == CHOOSE x \in tokenData : TRUE
             IN  [status |-> 200, error |-> "", email |-> d.email,
                  remaining |-> d.allowed_requests,
                  expires_at |-> d.expires_at, details |-> ""]

\* ---- state ---------------------------------------------------------------
\* One HTTP request to /tiktok or /validate-token.  pc is the position of
\* its handler; stream is the state of the res.download transfer; cb the
\* state of the res.download callback; charged whether the callback's
\* incrementUsage changed the store; error the step whose failure ended the
\* try block ("" when none did).
IdleReq ==
    [pc |-> "idle", route |-> "none", header |-> {}, url |-> FALSE,
     res |-> NoRes, consulted |-> FALSE, userToken |-> {}, userEmail |-> "",
     browser |-> "none", stream |-> "none", error |-> "",
     file |-> "none", cb |-> "none", charged |-> FALSE]

Requests == 1..MaxRequests

\* the admin exchange that has just completed (AdminSpec only)
NoAdmin == [op |-> "none", body |-> {}, res |-> NoAdminRes]

Bodies ==
    [adminEmail : AdminEmails, adminPass : AdminPasses,
     email : {{}} \cup {{e} : e \in Emails},
     allowedRequests : {{}} \cup {{n} : n \in (-1)..MaxQuota}]

\* issued: the credentials returned with a 200, in order, each with the
\* quota it was stored with
\* POST /admin/tokens reads adminEmail and adminPass only
ListBodies == [adminEmail : AdminEmails, adminPass : AdminPasses]

IssuedTokens == {issued[i].token : i \in 1..Len(issued)}

\* how many times generate-token returned this credential
TimesIssued(token) ==
    Cardinality({i \in 1..Len(issued) : issued[i].token = token})

\* the quota the credential was first stored with
IssuedQuota(token) ==
    issued[CHOOSE i \in 1..Len(issued) :
             /\ issued[i].token = token
             /\ \A j \in 1..(i - 1) : issued[j].token # token].quota

\* index.js serves /tiktok only; index.ts serves /tiktok and /validate-token
Routes == IF backend = "ts" THEN {"tiktok", "validate"} ELSE {"tiktok"}

\* ---- the download directory ----------------------------------------------
\* A file of the directory: the request whose browser wrote it, whether its
\* name still ends in an in-progress suffix, and its modification time.
\* Writes are stamped by the file-system clock, which advances with each.

\* name.endsWith(".crdownload") || name.endsWith(".tmp")
InProgress(file) == file.partial

\* The harvest of a request: initialLatest and downloadedFile as in the
\* handler ({} for undefined / null), polls the loop variable i while the
\* loop runs (the iterations run so far; out of scope, 0, once it is left),
\* download the state of the download its click asked the browser for.
\* page: the locators that match a "Download video" entry in the page now;
\* option: downloadOption, as the locator whose query returned it ({} for
\* null); clicked: the element the synthetic click was dispatched on.
NoHarvest ==
    [initialLatest |-> {}, polls |-> 0, downloadedFile |-> {},
     download |-> "none", page |-> {}, option |-> {}, clicked |-> {}]

\* downloadDir of the handler of request r: path.resolve(process.cwd(),
\* "downloads"), the same directory for every request
downloadDirScopedMutant(r) == {file \in dir : file.owner = r}

downloadDir(r) == dir

\* getLatestFile(): the entry of the directory with the greatest mtime,
\* {} for undefined (empty directory)
getLatestFile(r) ==
    IF downloadDir(r) = {} THEN {}
    ELSE {CHOOSE a \in downloadDir(r) :
             \A b \in downloadDir(r) : b.time <= a.time}

\* currentLatest && (!initialLatest || currentLatest.time > initialLatest.time)
IsNewer(currentLatest, initialLatest) ==
    /\ currentLatest # {}
    /\ \/ initialLatest = {}
       \/ \E c \in currentLatest, i \in initialLatest : c.time > i.time

\* the test of one loop iteration on the entry it read
PollAccepts(currentLatest, initialLatest) ==
    /\ IsNewer(currentLatest, initialLatest)
    /\ \A c \in currentLatest : ~InProgress(c)

\* fs.existsSync(downloadedFile) (true of the coarse harvest, which names
\* no file)
FileExists(r) == harvest[r].downloadedFile \subseteq dir

\* the download of a browser that is closed stops
Stopped(download) ==
    IF download \in {"requested", "writing", "written"} THEN "aborted"
    ELSE download

\* Two stores run side by side on the same operations: ts the relational
\* table, js the JSON token list; op the last operation, res the status each
\* side answered it with (0: the middleware called next()).
NoPair ==
    [ts |-> <<>>, js |-> <<>>, op |-> "none", res |-> [ts |-> 0, js |-> 0]]

Init ==
    /\ backend \in Backends
    /\ now = 0
    /\ store = <<>>
    /\ issued = <<>>
    /\ req = [r \in Requests |-> IdleReq]
    /\ admin = NoAdmin
    /\ dir = {}
    /\ fsclock = 0
    /\ harvest = [r \in Requests |-> NoHarvest]
    /\ pair = NoPair

\* ---- environment --------------------------------------------------------
TickCore ==
    /\ now < MaxTime
    /\ now' = now + 1
    /\ UNCHANGED <<backend, store, issued, req, harvestVars>>

Tick == TickCore /\ UNCHANGED <<admin, pair, harvestVars>>

\* the sweep db.cleanupExpired(), run by an operator or a scheduled job
CleanupExpiredCore ==
    /\ store' = cleanupExpired(store, now)
    /\ UNCHANGED <<backend, now, issued, req, harvestVars>>

CleanupExpired == CleanupExpiredCore /\ UNCHANGED <<admin, pair, harvestVars>>

\* ---- admin endpoints ----------------------------------------------------
GenerateTokenCore(body, skew, limit) ==
    LET out == generateToken(body, store, now, skew)
    IN  /\ Len(store) < limit
        /\ Len(issued) < limit
        /\ store' = out.tokens
        /\ issued' =
             IF out.res.status = 200
             THEN Append(issued,
                         [token |-> CHOOSE t \in out.res.token : TRUE,
                          quota |-> CHOOSE n \in out.res.allowedRequests : TRUE])
             ELSE issued
        /\ UNCHANGED <<backend, now, req, harvestVars>>

GenerateToken(body, skew) ==
    GenerateTokenCore(body, skew, MaxIssues) /\ UNCHANGED <<admin, pair, harvestVars>>

AdminTokens(body) == UNCHANGED vars

\* ---- a request arrives --------------------------------------------------
Headers == {{}, {Garbled}} \cup {{t} : t \in IssuedTokens}

SendCore(r, route, header, url) ==
    /\ req[r].pc = "idle"
    /\ IF r = 1 THEN TRUE ELSE req[r - 1].pc # "idle"
    /\ route \in Routes
    /\ route = "validate" => ~url
    /\ req' = [req EXCEPT ![r] =
                 [IdleReq EXCEPT !.pc = "auth", !.route = route,
                                 !.header = header, !.url = url]]
    /\ UNCHANGED <<backend, now, store, issued, admin, pair, harvestVars>>

Send(r, route, header, url) == SendCore(r, route, header, url)

\* ---- middleware, then the synchronous head of the handler --------------
AuthenticateBodyFirstMutant(r) ==
    LET d == authenticateToken(req[r].header, store, now)
    IN  /\ req[r].pc = "auth"
        /\ req' = [req EXCEPT ![r] =
             IF @.route = "tiktok" /\ ~@.url
             THEN [@ EXCEPT !.pc = "done", !.res = Json(400, "URL is required")]
             ELSE IF d.res.status # 0
             THEN [@ EXCEPT !.pc = "done", !.res = d.res,
                            !.consulted = d.consulted]
             ELSE IF @.route = "validate"
             THEN [@ EXCEPT !.pc = "validate", !.consulted = d.consulted,
                            !.userToken = d.userToken,
                            !.userEmail = d.userEmail]
             ELSE [@ EXCEPT !.pc = "launch", !.consulted = d.consulted,
                            !.userToken = d.userToken,
                            !.userEmail = d.userEmail]]
        /\ UNCHANGED <<backend, now, store, issued, admin, pair, harvestVars>>

Authenticate(r) ==
    LET d == authenticateToken(req[r].header, store, now)
    IN  /\ req[r].pc = "auth"
        /\ req' = [req EXCEPT ![r] =
             IF d.res.status # 0
             THEN [@ EXCEPT !.pc = "done", !.res = d.res,
                            !.consulted = d.consulted]
             ELSE IF @.route = "validate"
             THEN [@ EXCEPT !.pc = "validate", !.consulted = d.consulted,
                            !.userToken = d.userToken,
                            !.userEmail = d.userEmail]
             ELSE IF ~@.url
             THEN [@ EXCEPT !.pc = "done", !.consulted = d.consulted,
                            !.userToken = d.userToken,
                            !.userEmail = d.userEmail,
                            !.res = Json(400, "URL is required")]
             ELSE [@ EXCEPT !.pc = "launch", !.consulted = d.consulted,
                            !.userToken = d.userToken,
                            !.userEmail = d.userEmail]]
        /\ UNCHANGED <<backend, now, store, issued, admin, pair, harvestVars>>

ValidateTokenChargesMutant(r) ==
    /\ req[r].pc = "validate"
    /\ req' = [req EXCEPT ![r] =
                 [@ EXCEPT !.pc = "done",
                           !.res = validateToken(req[r].userToken, store, now)]]
    /\ store' = incrementUsage(store, CHOOSE t \in req[r].userToken : TRUE).tokens
    /\ UNCHANGED <<backend, now, issued, admin, pair, harvestVars>>

ValidateToken(r) ==
    /\ req[r].pc = "validate"
    /\ req' = [req EXCEPT ![r] =
                 [@ EXCEPT !.pc = "done",
                           !.res = validateToken(req[r].userToken, store, now)]]
    /\ UNCHANGED <<backend, now, store, issued, admin, pair, harvestVars>>

\* ---- POST /tiktok: the automation driver -------------------------------
\* puppeteer.launch resolves: the browser process runs
Launch(r) ==
    /\ req[r].pc = "launch"
    /\ req' = [req EXCEPT ![r] = [@ EXCEPT !.pc = "driver", !.browser = "open"]]
    /\ UNCHANGED <<backend, now, store, issued, admin, pair, harvestVars>>

\* puppeteer.launch rejects: `browser` stays undefined
LaunchFails(r) ==
    /\ req[r].pc = "launch"
    /\ req' = [req EXCEPT ![r] = [@ EXCEPT !.pc = "catch", !.error = "launch"]]
    /\ UNCHANGED <<backend, now, store, issued, admin, pair, harvestVars>>

\* The awaits between the launch and the synthetic click act on the
\* request's own page only; the first of them that throws ends the try block.
DriverStages ==
    {"session", "navigate", "player", "coordinates", "menu", "option", "click"}

DriverFails(r, stage) ==
    /\ req[r].pc = "driver"
    /\ stage \in DriverStages
    /\ req' = [req EXCEPT ![r] = [@ EXCEPT !.pc = "catch", !.error = stage]]
    /\ UNCHANGED <<backend, now, store, issued, admin, pair, harvestVars>>

\* all of them resolve: the click on "Download video" has been dispatched
DriverClicks(r) ==
    /\ req[r].pc = "driver"
    /\ req' = [req EXCEPT ![r] = [@ EXCEPT !.pc = "poll"]]
    /\ UNCHANGED <<backend, now, store, issued, admin, pair, harvestVars>>

\* a poll of the download directory finds a new completed file
PollFinds(r) ==
    /\ req[r].pc = "poll"
    /\ req' = [req EXCEPT ![r] = [@ EXCEPT !.pc = "videoSrc", !.file = "present"]]
    /\ UNCHANGED <<backend, now, store, issued, admin, pair, harvestVars>>

\* no poll finds one: throw "Download timed out after 30 seconds"
PollTimesOut(r) ==
    /\ req[r].pc = "poll"
    /\ req' = [req EXCEPT ![r] = [@ EXCEPT !.pc = "catch", !.error = "timeout"]]
    /\ UNCHANGED <<backend, now, store, issued, admin, pair, harvestVars>>

\* the page.evaluate that reads video.src rejects
VideoSrcFails(r) ==
    /\ req[r].pc = "videoSrc"
    /\ req' = [req EXCEPT ![r] = [@ EXCEPT !.pc = "catch", !.error = "videoSrc"]]
    /\ UNCHANGED <<backend, now, store, issued, admin, pair, harvestVars>>

\* res.download(downloadedFile, callback) starts the transfer; the handler
\* goes on to await browser.close().  When the file is no longer in the
\* directory the transfer fails before any header is sent.
StartDownload(r) ==
    /\ req[r].pc = "videoSrc"
    /\ req' = [req EXCEPT ![r] =
                 IF FileExists(r)
                 THEN [@ EXCEPT !.pc = "closing", !.stream = "sending",
                                !.res = [NoRes EXCEPT !.status = 200]]
                 ELSE [@ EXCEPT !.pc = "closing", !.stream = "failed"]]
    /\ UNCHANGED <<backend, now, store, issued, admin, pair, harvestVars>>

\* await browser.close() on the success path
CloseBrowser(r) ==
    /\ req[r].pc = "closing"
    /\ req' = [req EXCEPT ![r] = [@ EXCEPT !.pc = "done", !.browser = "closed"]]
    /\ harvest' = [harvest EXCEPT ![r].download = Stopped(@)]
    /\ UNCHANGED <<backend, now, store, issued, admin, pair, dir, fsclock>>

\* error.message of the error a failed step throws: the three texts of the
\* handler's own throw statements, and the driver's message for a rejected
\* driver call (named here by the call that rejected)
ErrorMessage(step) ==
    CASE step = "coordinates" -> "Could not find player container coordinates"
      [] step = "option" -> "Could not find download option element"
      [] step = "timeout" -> "Download timed out after 30 seconds"
      [] OTHER -> step

Scrape500(details) ==
    [Json(500, "Failed to scrape TikTok") EXCEPT !.details = details]

\* the catch block: if (browser) await browser.close(); then the 500
CatchLeakMutant(r) ==
    /\ req[r].pc = "catch"
    /\ req' = [req EXCEPT ![r] =
                 [@ EXCEPT !.pc = "done",
                           !.res = Scrape500(ErrorMessage(req[r].error))]]
    /\ UNCHANGED <<backend, now, store, issued, admin, pair, harvestVars>>

CatchRespondsFirstMutant(r) ==
    /\ req[r].pc = "catch"
    /\ req' = [req EXCEPT ![r] =
                 [@ EXCEPT !.pc = IF req[r].browser = "open" THEN "closing"
                                  ELSE "done",
                           !.res = Scrape500(ErrorMessage(req[r].error))]]
    /\ UNCHANGED <<backend, now, store, issued, admin, pair, harvestVars>>

CatchPerStepMutant(r) ==
    /\ req[r].pc = "catch"
    /\ req' = [req EXCEPT ![r] =
                 [@ EXCEPT !.pc = "done",
                           !.browser = IF @ = "open" THEN "closed" ELSE @,
                           !.res = IF req[r].error = "timeout"
                                   THEN Json(504, "Download timed out")
                                   ELSE Scrape500(ErrorMessage(req[r].error))]]
    /\ harvest' = [harvest EXCEPT ![r].download = Stopped(@)]
    /\ UNCHANGED <<backend, now, store, issued, admin, pair, dir, fsclock>>

\* res.status(500).json(...) throws when the header of the response has
\* been written already (ERR_HTTP_HEADERS_SENT): the response stays as it is
Catch(r) ==
    /\ req[r].pc = "catch"
    /\ req' = [req EXCEPT ![r] =
                 [@ EXCEPT !.pc = "done",
                           !.browser = IF @ = "open" THEN "closed" ELSE @,
                           !.res = IF @.status = 0
                                   THEN Scrape500(ErrorMessage(req[r].error))
                                   ELSE @]]
    /\ harvest' = [harvest EXCEPT ![r].download = Stopped(@)]
    /\ UNCHANGED <<backend, now, store, issued, admin, pair, dir, fsclock>>

\* ---- delivery -----------------------------------------------------------
\* the transfer ends: the client holds the complete body
StreamCompletes(r) ==
    /\ req[r].stream = "sending"
    /\ req' = [req EXCEPT ![r] = [@ EXCEPT !.stream = "sent"]]
    /\ UNCHANGED <<backend, now, store, issued, admin, pair, harvestVars>>

\* the transfer ends with an error
StreamFails(r) ==
    /\ req[r].stream = "sending"
    /\ req' = [req EXCEPT ![r] = [@ EXCEPT !.stream = "failed"]]
    /\ UNCHANGED <<backend, now, store, issued, admin, pair, harvestVars>>

\* The res.download callback, up to its first await.  err: log, then the
\* cleanup.  No err: incrementUsage; index.js calls it synchronously and
\* goes on to the cleanup, index.ts awaits it (cb = "charged") and the
\* callback's promise rejects when it throws.
\* if (downloadedFile && fs.existsSync(downloadedFile)) fs.unlinkSync(...):
\* the directory without the file the request streamed
Unlinked(r) == dir \ harvest[r].downloadedFile

CallbackChargeAlwaysMutant(r) ==
    LET token == CHOOSE t \in req[r].userToken : TRUE
        inc == incrementUsage(store, token)
    IN  /\ req[r].stream \in {"sent", "failed"}
        /\ req[r].cb = "none"
        /\ store' = inc.tokens
        /\ req' = [req EXCEPT ![r] =
                     [@ EXCEPT !.cb = "done", !.file = "deleted",
                               !.charged = (inc.tokens # store)]]
        /\ dir' = Unlinked(r)
        /\ UNCHANGED <<backend, now, issued, admin, pair, fsclock, harvest>>

Callback(r) ==
    LET token == CHOOSE t \in req[r].userToken : TRUE
        inc == incrementUsage(store, token)
    IN  /\ req[r].stream \in {"sent", "failed"}
        /\ req[r].cb = "none"
        /\ IF req[r].stream = "failed"
           THEN /\ req' = [req EXCEPT ![r] =
                             [@ EXCEPT !.cb = "done", !.file = "deleted"]]
                /\ store' = store
                /\ dir' = Unlinked(r)
           ELSE /\ store' = inc.tokens
                /\ req' = [req EXCEPT ![r] =
                     IF backend = "js"
                     THEN [@ EXCEPT !.cb = "done", !.file = "deleted",
                                    !.charged = (inc.tokens # store)]
                     ELSE IF inc.threw
                     THEN [@ EXCEPT !.cb = "rejected"]
                     ELSE [@ EXCEPT !.cb = "charged", !.charged = TRUE]]
                /\ dir' = IF backend = "js" THEN Unlinked(r) ELSE dir
        /\ UNCHANGED <<backend, now, issued, admin, pair, fsclock, harvest>>

\* index.ts: the callback resumes after await db.incrementUsage and
\* unlinks the temporary file
CallbackCleanupChargesAgainMutant(r) ==
    /\ req[r].cb = "charged"
    /\ req' = [req EXCEPT ![r] = [@ EXCEPT !.cb = "done", !.file = "deleted"]]
    /\ store' = incrementUsage(store, CHOOSE t \in req[r].userToken : TRUE).tokens
    /\ dir' = Unlinked(r)
    /\ UNCHANGED <<backend, now, issued, admin, pair, fsclock, harvest>>

CallbackCleanup(r) ==
    /\ req[r].cb = "charged"
    /\ req' = [req EXCEPT ![r] = [@ EXCEPT !.cb = "done", !.file = "deleted"]]
    /\ dir' = Unlinked(r)
    /\ UNCHANGED <<backend, now, store, issued, admin, pair, fsclock, harvest>>

\* ---- the end of the handler, step by step --------------------------------
\* res.download(downloadedFile, callback) returns at once: the transfer is
\* queued and writes the header of the response later
StartDownloadQueued(r) ==
    /\ req[r].pc = "videoSrc"
    /\ req' = [req EXCEPT ![r] = [@ EXCEPT !.pc = "closing", !.stream = "queued"]]
    /\ UNCHANGED <<backend, now, store, issued, admin, pair, harvestVars>>

\* the queued transfer opens the file and writes the header; it fails when
\* the file is gone or when a response has been sent in the meantime
StreamBegins(r) ==
    /\ req[r].stream = "queued"
    /\ req' = [req EXCEPT ![r] =
                 IF FileExists(r) /\ req[r].res.status = 0
                 THEN [@ EXCEPT !.stream = "sending",
                                !.res = [NoRes EXCEPT !.status = 200]]
                 ELSE [@ EXCEPT !.stream = "failed"]]
    /\ UNCHANGED <<backend, now, store, issued, admin, pair, harvestVars>>

\* await browser.close() (line 497) rejects: the try block ends in the catch
CloseFails(r) ==
    /\ req[r].pc = "closing"
    /\ req' = [req EXCEPT ![r] = [@ EXCEPT !.pc = "catch", !.error = "close"]]
    /\ UNCHANGED <<backend, now, store, issued, admin, pair, harvestVars>>

\* if (browser) await browser.close() rejects inside the catch block: the
\* handler ends by rejection before res.status(500)
CatchCloseFails(r) ==
    /\ req[r].pc = "catch"
    /\ req[r].browser = "open"
    /\ req' = [req EXCEPT ![r] = [@ EXCEPT !.pc = "done"]]
    /\ UNCHANGED <<backend, now, store, issued, admin, pair, harvestVars>>

\* ---- POST /tiktok: the harvest, step by step ----------------------------
\* the awaits up to line 422 resolve: the click on "Download video" has been
\* dispatched in the page and the browser has been asked for the download
Click(r) ==
    /\ req[r].pc = "driver"
    /\ req' = [req EXCEPT ![r] = [@ EXCEPT !.pc = "snapshot"]]
    /\ harvest' = [harvest EXCEPT ![r].download = "requested"]
    /\ UNCHANGED <<backend, now, store, issued, admin, pair, dir, fsclock>>

\* const initialLatest = getLatestFile() (line 442)
Snapshot(r) ==
    /\ req[r].pc = "snapshot"
    /\ req' = [req EXCEPT ![r] = [@ EXCEPT !.pc = "polling"]]
    /\ harvest' = [harvest EXCEPT ![r].initialLatest = getLatestFile(r)]
    /\ UNCHANGED <<backend, now, store, issued, admin, pair, dir, fsclock>>

\* One iteration of the loop: the 500 ms sleep, getLatestFile(), the test;
\* break when it accepts; after the last iteration without a file, the
\* throw of line 466.
PollWithoutLimitMutant(r) ==
    LET currentLatest == getLatestFile(r)
        found == PollAccepts(currentLatest, harvest[r].initialLatest)
        i == harvest[r].polls + 1
    IN  /\ req[r].pc = "polling"
        /\ harvest' = [harvest EXCEPT ![r] =
                         [@ EXCEPT !.polls =
                                       IF found THEN 0
                                       ELSE IF i = PollLimit THEN @ ELSE i,
                                   !.downloadedFile =
                                       IF found THEN currentLatest ELSE {}]]
        /\ req' = [req EXCEPT ![r] =
                     IF found
                     THEN [@ EXCEPT !.pc = "videoSrc", !.file = "present"]
                     ELSE @]
        /\ UNCHANGED <<backend, now, store, issued, admin, pair, dir, fsclock>>

Poll(r) ==
    LET currentLatest == getLatestFile(r)
        found == PollAccepts(currentLatest, harvest[r].initialLatest)
        i == harvest[r].polls + 1
    IN  /\ req[r].pc = "polling"
        /\ harvest[r].polls < PollLimit
        /\ harvest' = [harvest EXCEPT ![r] =
                         [@ EXCEPT !.polls =
                                       IF found \/ i = PollLimit THEN 0 ELSE i,
                                   !.downloadedFile =
                                       IF found THEN currentLatest ELSE {}]]
        /\ req' = [req EXCEPT ![r] =
                     IF found
                     THEN [@ EXCEPT !.pc = "videoSrc", !.file = "present"]
                     ELSE IF i = PollLimit
                     THEN [@ EXCEPT !.pc = "catch", !.error = "timeout"]
                     ELSE @]
        /\ UNCHANGED <<backend, now, store, issued, admin, pair, dir, fsclock>>

\* ---- the browser's download ---------------------------------------------
\* the browser of request r creates the in-progress file of its download
DownloadBegins(r) ==
    /\ harvest[r].download = "requested"
    /\ fsclock' = fsclock + 1
    /\ dir' = dir \cup {[owner |-> r, partial |-> TRUE, time |-> fsclock + 1]}
    /\ harvest' = [harvest EXCEPT ![r].download = "writing"]
    /\ UNCHANGED <<backend, now, store, issued, req, admin, pair>>

\* the in-progress file of the download of request r
PartialOf(r) == {file \in dir : file.owner = r /\ file.partial}

\* it writes more data to it
DownloadWrites(r) ==
    /\ harvest[r].download = "writing"
    /\ fsclock' = fsclock + 1
    /\ dir' = (dir \ PartialOf(r))
                 \cup {[file EXCEPT !.time = fsclock + 1] : file \in PartialOf(r)}
    /\ harvest' = [harvest EXCEPT ![r].download = "written"]
    /\ UNCHANGED <<backend, now, store, issued, req, admin, pair>>

\* the directory after the browser renamed the finished file of request r
\* to its final name (a rename keeps the modification time)
Renamed(r) ==
    (dir \ PartialOf(r))
      \cup {[file EXCEPT !.partial = FALSE] : file \in PartialOf(r)}

DownloadCompletes(r) ==
    /\ harvest[r].download \in {"writing", "written"}
    /\ dir' = Renamed(r)
    /\ harvest' = [harvest EXCEPT ![r].download = "complete"]
    /\ UNCHANGED <<backend, now, store, issued, req, admin, pair, fsclock>>

\* a browser that was closed during its download may remove the
\* in-progress file
DownloadDiscarded(r) ==
    /\ harvest[r].download = "aborted"
    /\ dir' = dir \ PartialOf(r)
    /\ harvest' = [harvest EXCEPT ![r].download = "discarded"]
    /\ UNCHANGED <<backend, now, store, issued, req, admin, pair, fsclock>>

\* getLatestFile() lists the directory (readdirSync) and then stats each
\* name (statSync): when the browser of request q renames its in-progress
\* file in between, statSync throws ENOENT, which ends the try block
ScanFails(r, q) ==
    /\ req[r].pc \in {"snapshot", "polling"}
    /\ harvest[q].download \in {"writing", "written"}
    /\ dir' = Renamed(q)
    /\ harvest' = [harvest EXCEPT
                     ![q] = [@ EXCEPT !.download = "complete"],
                     ![r] = [@ EXCEPT !.polls = 0,
                               !.download =
                                 IF q = r THEN "complete" ELSE @]]
    /\ req' = [req EXCEPT ![r] = [@ EXCEPT !.pc = "catch", !.error = "ENOENT"]]
    /\ UNCHANGED <<backend, now, store, issued, admin, pair, fsclock>>

\* ---- POST /tiktok: the "Download video" lookup, step by step -------------
\* "::-p-text(Download video)" and "xpath///*[contains(text(), 'Download
\* video')]"
Locators == {"primary", "fallback"}

\* the positions of the handler inside the lookup
LookupPcs == {"waitPrimary", "waitFallback", "queryPrimary", "queryFallback"}

\* the awaits up to the right click on the player (line 395) resolve
RightClick(r) ==
    /\ req[r].pc = "driver"
    /\ req' = [req EXCEPT ![r] = [@ EXCEPT !.pc = "waitPrimary"]]
    /\ UNCHANGED <<backend, now, store, issued, admin, pair, harvestVars>>

\* the page of request r renders, changes or removes its menu while the
\* handler is suspended in an await
PageChanges(r, matches) ==
    /\ req[r].pc \in LookupPcs
    /\ matches \in SUBSET Locators
    /\ matches # harvest[r].page
    /\ harvest' = [harvest EXCEPT ![r].page = matches]
    /\ UNCHANGED <<backend, now, store, issued, req, admin, pair, dir, fsclock>>

\* await page.waitForSelector(downloadOptionSelector, {timeout: 8000}):
\* resolves when the selector matches, rejects when the time is up; the
\* rejection is caught (catch (e), line 403) and starts the fallback wait
WaitPrimaryBothMutant(r) ==
    /\ req[r].pc = "waitPrimary"
    /\ req' = [req EXCEPT ![r] = [@ EXCEPT !.pc = "waitFallback"]]
    /\ UNCHANGED <<backend, now, store, issued, admin, pair, harvestVars>>

WaitPrimary(r) ==
    /\ req[r].pc = "waitPrimary"
    /\ req' = [req EXCEPT ![r] =
                 IF "primary" \in harvest[r].page
                 THEN [@ EXCEPT !.pc = "queryPrimary"]
                 ELSE [@ EXCEPT !.pc = "waitFallback"]]
    /\ UNCHANGED <<backend, now, store, issued, admin, pair, harvestVars>>

\* await page.waitForSelector(fallbackSelector, {timeout: 5000}) inside the
\* inner catch: its rejection ends the try block
WaitFallback(r) ==
    /\ req[r].pc = "waitFallback"
    /\ req' = [req EXCEPT ![r] =
                 IF "fallback" \in harvest[r].page
                 THEN [@ EXCEPT !.pc = "queryPrimary"]
                 ELSE [@ EXCEPT !.pc = "catch", !.error = "menu"]]
    /\ UNCHANGED <<backend, now, store, issued, admin, pair, harvestVars>>

\* (await page.$(downloadOptionSelector)) || ...: the second query runs
\* only when the first returned null
QueryPrimary(r) ==
    /\ req[r].pc = "queryPrimary"
    /\ IF "primary" \in harvest[r].page
       THEN /\ req' = [req EXCEPT ![r] = [@ EXCEPT !.pc = "located"]]
            /\ harvest' = [harvest EXCEPT ![r].option = {"primary"}]
       ELSE /\ req' = [req EXCEPT ![r] = [@ EXCEPT !.pc = "queryFallback"]]
            /\ harvest' = harvest
    /\ UNCHANGED <<backend, now, store, issued, admin, pair, dir, fsclock>>

\* ... || (await page.$("xpath///*[contains(text(), 'Download video')]"));
\* if (!downloadOption) throw "Could not find download option element"
QueryFallback(r) ==
    /\ req[r].pc = "queryFallback"
    /\ IF "fallback" \in harvest[r].page
       THEN /\ req' = [req EXCEPT ![r] = [@ EXCEPT !.pc = "located"]]
            /\ harvest' = [harvest EXCEPT ![r].option = {"fallback"}]
       ELSE /\ req' = [req EXCEPT ![r] =
                         [@ EXCEPT !.pc = "catch", !.error = "option"]]
            /\ harvest' = harvest
    /\ UNCHANGED <<backend, now, store, issued, admin, pair, dir, fsclock>>

\* page.evaluate(el => { if (el) el.click() }, downloadOption) resolves:
\* the click has been dispatched on the element
ClickOption(r) ==
    /\ req[r].pc = "located"
    /\ req' = [req EXCEPT ![r] = [@ EXCEPT !.pc = "poll"]]
    /\ harvest' = [harvest EXCEPT ![r].clicked = harvest[r].option]
    /\ UNCHANGED <<backend, now, store, issued, admin, pair, dir, fsclock>>

\* ---- specification ------------------------------------------------------
Next ==
    \/ Tick
    \/ CleanupExpired
    \/ \E body \in Bodies, skew \in DstSkew : GenerateToken(body, skew)
    \/ \E body \in ListBodies : AdminTokens(body)
    \/ \E r \in Requests, route \in {"tiktok", "validate"}, header \in Headers,
          url \in BOOLEAN : Send(r, route, header, url)
    \/ \E r \in Requests : Authenticate(r)
    \/ \E r \in Requests : ValidateToken(r)
    \/ \E r \in Requests : Launch(r)
    \/ \E r \in Requests : LaunchFails(r)
    \/ \E r \in Requests, stage \in DriverStages : DriverFails(r, stage)
    \/ \E r \in Requests : DriverClicks(r)
    \/ \E r \in Requests : PollFinds(r)
    \/ \E r \in Requests : PollTimesOut(r)
    \/ \E r \in Requests : VideoSrcFails(r)
    \/ \E r \in Requests : StartDownload(r)
    \/ \E r \in Requests : CloseBrowser(r)
    \/ \E r \in Requests : Catch(r)
    \/ \E r \in Requests : StreamCompletes(r)
    \/ \E r \in Requests : StreamFails(r)
    \/ \E r \in Requests : Callback(r)
    \/ \E r \in Requests : CallbackCleanup(r)

Spec == Init /\ [][Next]_vars

\* the service with its delivery callbacks run when they can be: the
\* callback of res.download is called once the transfer has ended, and
\* resumes once the awaited store call has resolved
FairSpec ==
    /\ Init
    /\ [][Next]_vars
    /\ \A r \in Requests :
          /\ WF_vars(Callback(r))
          /\ WF_vars(CallbackCleanup(r))

\* ---- sequential clients -------------------------------------------------
\* the client of request r holds its complete response
ClientDone(r) == req[r].res.status # 0 /\ req[r].stream # "sending"

\* a request is sent only when every earlier request has been answered in full
SendInTurn(r, route, header, url) ==
    /\ \A p \in Requests : p < r => ClientDone(p)
    /\ SendCore(r, route, header, url)

SeqNext ==
    \/ Tick
    \/ CleanupExpired
    \/ \E body \in Bodies, skew \in DstSkew : GenerateToken(body, skew)
    \/ \E body \in ListBodies : AdminTokens(body)
    \/ \E r \in Requests, route \in {"tiktok", "validate"}, header \in Headers,
          url \in BOOLEAN : SendInTurn(r, route, header, url)
    \/ \E r \in Requests : Authenticate(r)
    \/ \E r \in Requests : ValidateToken(r)
    \/ \E r \in Requests : Launch(r)
    \/ \E r \in Requests : LaunchFails(r)
    \/ \E r \in Requests, stage \in DriverStages : DriverFails(r, stage)
    \/ \E r \in Requests : DriverClicks(r)
    \/ \E r \in Requests : PollFinds(r)
    \/ \E r \in Requests : PollTimesOut(r)
    \/ \E r \in Requests : VideoSrcFails(r)
    \/ \E r \in Requests : StartDownload(r)
    \/ \E r \in Requests : CloseBrowser(r)
    \/ \E r \in Requests : Catch(r)
    \/ \E r \in Requests : StreamCompletes(r)
    \/ \E r \in Requests : StreamFails(r)
    \/ \E r \in Requests : Callback(r)
    \/ \E r \in Requests : CallbackCleanup(r)

SeqSpec == Init /\ [][SeqNext]_vars

\* ---- the admin endpoints observed ---------------------------------------
\* admin holds the admin exchange that has just completed
ObservedGenerateToken(body, skew) ==
    /\ GenerateTokenCore(body, skew, MaxAdminIssues)
    /\ admin' = [op |-> "generate", body |-> {body},
                 res |-> generateToken(body, store, now, skew).res]
    /\ UNCHANGED pair

ObservedAdminTokens(body) ==
    /\ admin' = [op |-> "tokens", body |-> {body},
                 res |-> adminTokens(body, store)]
    /\ UNCHANGED <<backend, now, store, issued, req, harvestVars, pair>>

\* the admin endpoints within one clock tick, no daylight-saving change in
\* the lifetime of the tokens
AdminNext ==
    \/ \E body \in Bodies : ObservedGenerateToken(body, 0)
    \/ \E body \in ListBodies : ObservedAdminTokens(body)

AdminSpec == Init /\ [][AdminNext]_vars

\* ---- the store fails ------------------------------------------------------
\* generate-token while the store cannot be written
ObservedGenerateTokenWriteFails(body) ==
    LET out == generateTokenWriteFails(body, store, now, 0)
    IN  /\ Len(store) < MaxAdminIssues
        /\ Len(issued) < MaxAdminIssues
        /\ store' = out.tokens
        /\ issued' =
             IF out.res.status = 200
             THEN Append(issued,
                         [token |-> CHOOSE t \in out.res.token : TRUE,
                          quota |-> CHOOSE n \in out.res.allowedRequests : TRUE])
             ELSE issued
        /\ admin' = [op |-> "generateWriteFails", body |-> {body}, res |-> out.res]
        /\ UNCHANGED <<backend, now, req, harvestVars, pair>>

\* the middleware and the head of the handler while the store lookup
\* raises; error records that the lookup of this request failed
AuthenticateLookupFails(r) ==
    LET d == authenticateTokenLookupFails(req[r].header, store, now)
    IN  /\ req[r].pc = "auth"
        /\ d.consulted
        /\ req' = [req EXCEPT ![r] =
             IF d.res.status # 0
             THEN [@ EXCEPT !.pc = "done", !.res = d.res,
                            !.consulted = d.consulted, !.error = "lookup"]
             ELSE IF @.route = "validate"
             THEN [@ EXCEPT !.pc = "validate", !.consulted = d.consulted,
                            !.userToken = d.userToken,
                            !.userEmail = d.userEmail, !.error = "lookup"]
             ELSE IF ~@.url
             THEN [@ EXCEPT !.pc = "done", !.consulted = d.consulted,
                            !.userToken = d.userToken,
                            !.userEmail = d.userEmail, !.error = "lookup",
                            !.res = Json(400, "URL is required")]
             ELSE [@ EXCEPT !.pc = "launch", !.consulted = d.consulted,
                            !.userToken = d.userToken,
                            !.userEmail = d.userEmail, !.error = "lookup"]]
        /\ UNCHANGED <<backend, now, store, issued, admin, pair, harvestVars>>

\* generate-token with a store that may fail to be written, within one
\* clock tick
WriteFaultNext ==
    \/ \E body \in Bodies : ObservedGenerateToken(body, 0)
    \/ \E body \in Bodies : ObservedGenerateTokenWriteFails(body)

WriteFaultSpec == Init /\ [][WriteFaultNext]_vars

\* the middleware with a store whose lookup may raise, within one clock tick
LookupFaultNext ==
    \/ \E body \in Bodies : GenerateToken(body, 0)
    \/ \E r \in Requests, route \in {"tiktok", "validate"}, header \in Headers,
          url \in BOOLEAN : Send(r, route, header, url)
    \/ \E r \in Requests : Authenticate(r)
    \/ \E r \in Requests : AuthenticateLookupFails(r)
    \/ \E r \in Requests : ValidateToken(r)
    \/ \E r \in Requests : Launch(r)

LookupFaultSpec == Init /\ [][LookupFaultNext]_vars

\* ---- the two quota representations side by side ---------------------------
\* The store operations and the middleware with the backend as a parameter:
\* b = "ts" is database.ts with index.ts, b = "js" database.js with index.js.
RemainingIn(b, rec) ==
    IF b = "ts" THEN rec.allowed_requests
    ELSE rec.allowed_requests - rec.used_requests

QuotaExhaustedInStrictMutant(b, rec) ==
    IF b = "ts" THEN rec.allowed_requests <= 0
    ELSE rec.used_requests > rec.allowed_requests

QuotaExhaustedIn(b, rec) ==
    IF b = "ts" THEN rec.allowed_requests <= 0
    ELSE rec.used_requests >= rec.allowed_requests

saveTokenIn(b, tokens, token, email, allowedRequests, expiresAt) ==
    LET rec == [token |-> token, email |-> email,
                allowed_requests |-> allowedRequests, used_requests |-> 0,
                expires_at |-> expiresAt]
    IN  IF b = "ts" /\ FindIndex(tokens, token, 1) # 0
        THEN [tokens |-> tokens, threw |-> TRUE]
        ELSE [tokens |-> Append(tokens, rec), threw |-> FALSE]

incrementUsageIn(b, tokens, token) ==
    LET i == FindIndex(tokens, token, 1)
    IN  IF i = 0 THEN [tokens |-> tokens, threw |-> (b = "ts")]
        ELSE IF b = "ts"
        THEN [tokens |-> [tokens EXCEPT ![i].allowed_requests = @ - 1],
              threw |-> FALSE]
        ELSE [tokens |-> [tokens EXCEPT ![i].used_requests = @ + 1],
              threw |-> FALSE]

\* the status the middleware answers a credential with (0: next())
authenticateTokenIn(b, token, tokens, clock) ==
    IF ~JwtVerifies(token, clock) THEN 401
    ELSE LET tokenData == getToken(tokens, token, clock)
         IN  IF tokenData = {} THEN 403
             ELSE IF QuotaExhaustedIn(b, CHOOSE d \in tokenData : TRUE) THEN 402
             ELSE 0

\* the credentials either side has stored
PairTokens ==
    {pair.ts[i].token : i \in 1..Len(pair.ts)}
      \cup {pair.js[i].token : i \in 1..Len(pair.js)}

\* generate-token past its checks (a non-zero allowedRequests), on both sides
PairIssue(email, allowedRequests) ==
    LET token == Sign(email, now)
        ts == saveTokenIn("ts", pair.ts, token, email, allowedRequests,
                          now + TokenTtl)
        js == saveTokenIn("js", pair.js, token, email, allowedRequests,
                          now + TokenTtl)
    IN  /\ Len(pair.js) < MaxAdminIssues
        /\ allowedRequests # 0
        /\ pair' = [ts |-> ts.tokens, js |-> js.tokens, op |-> "issue",
                     res |-> [ts |-> IF ts.threw THEN 500 ELSE 200,
                              js |-> IF js.threw THEN 500 ELSE 200]]
        /\ UNCHANGED <<backend, now, store, issued, req, admin, harvestVars>>

\* a request with the credential passes through the middleware of each side
PairValidate(token) ==
    /\ token \in PairTokens
    /\ pair' = [pair EXCEPT
                  !.op = "validate",
                  !.res = [ts |-> authenticateTokenIn("ts", token, pair.ts, now),
                           js |-> authenticateTokenIn("js", token, pair.js, now)]]
    /\ UNCHANGED <<backend, now, store, issued, req, admin, harvestVars>>

\* a delivery for the credential succeeds: the callback of each side calls
\* incrementUsage.  Requests in flight may deliver after the quota is used
\* up, one delivery past it is followed here.
PairDeliver(token) ==
    LET ts == incrementUsageIn("ts", pair.ts, token)
        js == incrementUsageIn("js", pair.js, token)
    IN  /\ token \in PairTokens
        /\ \A i \in 1..Len(pair.js) :
              pair.js[i].token = token => pair.js[i].used_requests <= MaxQuota
        /\ pair' = [ts |-> ts.tokens, js |-> js.tokens, op |-> "deliver",
                     res |-> [ts |-> IF ts.threw THEN 500 ELSE 200,
                              js |-> IF js.threw THEN 500 ELSE 200]]
        /\ UNCHANGED <<backend, now, store, issued, req, admin, harvestVars>>

PairNext ==
    \/ Tick
    \/ \E email \in Emails, n \in (-1)..MaxQuota : PairIssue(email, n)
    \/ \E token \in PairTokens : PairValidate(token)
    \/ \E token \in PairTokens : PairDeliver(token)

PairSpec == Init /\ [][PairNext]_vars

\* ---- the harvest observed -------------------------------------------------
\* the credential the harvesting requests use
HarvestBody ==
    [adminEmail |-> ADMIN_EMAIL, adminPass |-> ADMIN_PASS,
     email |-> {"a@x"}, allowedRequests |-> {MaxQuota}]

\* the loop of request r, followed for its first MaxPolls iterations
PollEarly(r) == harvest[r].polls < MaxPolls /\ Poll(r)

\* /tiktok requests with a valid credential and a url, the harvest of each
\* followed step by step together with the downloads of their browsers
HarvestNext ==
    \/ GenerateToken(HarvestBody, 0)
    \/ \E r \in Requests, t \in IssuedTokens : Send(r, "tiktok", {t}, TRUE)
    \/ \E r \in Requests : Authenticate(r)
    \/ \E r \in Requests : Launch(r)
    \/ \E r \in Requests : Click(r)
    \/ \E r \in Requests : Snapshot(r)
    \/ \E r \in Requests : PollEarly(r)
    \/ \E r \in Requests, q \in Requests : ScanFails(r, q)
    \/ \E r \in Requests : DownloadBegins(r)
    \/ \E r \in Requests : DownloadWrites(r)
    \/ \E r \in Requests : DownloadCompletes(r)
    \/ \E r \in Requests : DownloadDiscarded(r)
    \/ \E r \in Requests : StartDownload(r)
    \/ \E r \in Requests : CloseBrowser(r)
    \/ \E r \in Requests : Catch(r)
    \/ \E r \in Requests : StreamCompletes(r)
    \/ \E r \in Requests : StreamFails(r)
    \/ \E r \in Requests : Callback(r)
    \/ \E r \in Requests : CallbackCleanup(r)

HarvestSpec == Init /\ [][HarvestNext]_vars

\* ---- one harvest to its end ----------------------------------------------
\* one /tiktok request, its loop followed to the end; the steps of the
\* handler are taken when they can be (timers fire, awaits resume), the
\* browser's download may stall at any point
SoloNext ==
    \/ GenerateToken(HarvestBody, 0)
    \/ \E t \in IssuedTokens : Send(1, "tiktok", {t}, TRUE)
    \/ \E r \in Requests : Authenticate(r)
    \/ \E r \in Requests : Launch(r)
    \/ \E r \in Requests : Click(r)
    \/ \E r \in Requests : Snapshot(r)
    \/ \E r \in Requests : Poll(r)
    \/ \E r \in Requests, q \in Requests : ScanFails(r, q)
    \/ \E r \in Requests : DownloadBegins(r)
    \/ \E r \in Requests : DownloadWrites(r)
    \/ \E r \in Requests : DownloadCompletes(r)
    \/ \E r \in Requests : DownloadDiscarded(r)
    \/ \E r \in Requests : StartDownload(r)
    \/ \E r \in Requests : CloseBrowser(r)
    \/ \E r \in Requests : Catch(r)
    \/ \E r \in Requests : StreamCompletes(r)
    \/ \E r \in Requests : StreamFails(r)
    \/ \E r \in Requests : Callback(r)
    \/ \E r \in Requests : CallbackCleanup(r)

SoloSpec ==
    /\ Init
    /\ [][SoloNext]_vars
    /\ \A r \in Requests :
          /\ WF_vars(Snapshot(r))
          /\ WF_vars(Poll(r))
          /\ WF_vars(Catch(r))

\* ---- the lookup observed --------------------------------------------------
\* /tiktok requests with a valid credential and a url, followed from the
\* right click to the synthetic click, each on its own page
LookupNext ==
    \/ GenerateToken(HarvestBody, 0)
    \/ \E r \in Requests, t \in IssuedTokens : Send(r, "tiktok", {t}, TRUE)
    \/ \E r \in Requests : Authenticate(r)
    \/ \E r \in Requests : Launch(r)
    \/ \E r \in Requests : RightClick(r)
    \/ \E r \in Requests, matches \in SUBSET Locators : PageChanges(r, matches)
    \/ \E r \in Requests : WaitPrimary(r)
    \/ \E r \in Requests : WaitFallback(r)
    \/ \E r \in Requests : QueryPrimary(r)
    \/ \E r \in Requests : QueryFallback(r)
    \/ \E r \in Requests : ClickOption(r)
    \/ \E r \in Requests : Catch(r)

LookupSpec == Init /\ [][LookupNext]_vars

\* ---- the end of the handler observed --------------------------------------
\* /tiktok requests with a valid credential and a url whose harvest found a
\* file, followed from res.download on; browser.close() may reject
CloseNext ==
    \/ GenerateToken(HarvestBody, 0)
    \/ \E r \in Requests, t \in IssuedTokens : Send(r, "tiktok", {t}, TRUE)
    \/ \E r \in Requests : Authenticate(r)
    \/ \E r \in Requests : Launch(r)
    \/ \E r \in Requests : DriverClicks(r)
    \/ \E r \in Requests : PollFinds(r)
    \/ \E r \in Requests : StartDownloadQueued(r)
    \/ \E r \in Requests : StreamBegins(r)
    \/ \E r \in Requests : CloseBrowser(r)
    \/ \E r \in Requests : CloseFails(r)
    \/ \E r \in Requests : Catch(r)
    \/ \E r \in Requests : CatchCloseFails(r)
    \/ \E r \in Requests : StreamCompletes(r)
    \/ \E r \in Requests : StreamFails(r)
    \/ \E r \in Requests : Callback(r)
    \/ \E r \in Requests : CallbackCleanup(r)

CloseSpec == Init /\ [][CloseNext]_vars

\* ---- the sweep observed ---------------------------------------------------
\* tokens are issued, the clock advances and the sweep runs; no request
SweepNext ==
    \/ Tick
    \/ CleanupExpired
    \/ \E body \in Bodies, skew \in DstSkew : GenerateToken(body, skew)

SweepSpec == Init /\ [][SweepNext]_vars

\* ---- properties ----------------------------------------------------------
\* the step in which the middleware decides request r
AuthStep(r) == req[r].pc = "auth" /\ req'[r].pc # "auth"

\* the stored record of a credential (the first one that matches), if any
HasRecord(token) == FindIndex(store, token, 1) # 0

RecordOf(token) == store[FindIndex(store, token, 1)]

\* a response of the middleware that ends the request
Rejected(r) == req[r].res.status \in {401, 402, 403}

\* C1: a POST /tiktok whose credential verifies and whose live store record
\* has remaining quota <= 0 is answered 402 "Request limit exceeded"; the
\* handler is never entered: no browser is launched, the store is not
\* written, and the request stays as answered.
QuotaExhaustedAnswers402 ==
    [][\A r \in Requests :
         /\ ( /\ AuthStep(r)
              /\ req[r].route = "tiktok"
              /\ \E t \in req[r].header :
                    /\ JwtVerifies(t, now)
                    /\ HasRecord(t)
                    /\ ~(RecordOf(t).expires_at < now)
                    /\ RemainingOf(RecordOf(t)) <= 0 )
            => /\ req'[r].res = Json(402, "Request limit exceeded")
               /\ req'[r].pc = "done"
               /\ req'[r].browser = "none"
               /\ store' = store
         /\ req[r].res.status = 402
            => req'[r] = req[r] /\ req[r].browser = "none" /\ ~req[r].charged
      ]_vars

QuotaExhaustedWitness ==
    \E r \in Requests :
        /\ req[r].route = "tiktok"
        /\ req[r].res.status = 402
        /\ \E t \in req[r].header : HasRecord(t) /\ RemainingOf(RecordOf(t)) = 0

\* the successful deliveries made with a credential by requests before r
ServedBefore(r) ==
    {p \in Requests : p < r /\ req[p].header = req[r].header
                            /\ req[p].stream = "sent"}

\* C2: with requests sent one after another (each after the client holds
\* the complete response of the previous one), a token issued with quota q
\* serves exactly q downloads and the next request is answered 402: no
\* request passes the quota check once q downloads have been served.
SequentialQuotaEnforced ==
    \A r \in Requests :
        ( /\ req[r].route = "tiktok"
          /\ req[r].pc \notin {"idle", "auth"}
          /\ ~Rejected(r) )
        => \A t \in req[r].userToken :
              Cardinality(ServedBefore(r)) < IssuedQuota(t)

\* the deliveries with a credential whose callback has run its decrement
Charges(token) ==
    {r \in Requests : /\ req[r].userToken = {token}
                      /\ req[r].stream = "sent"
                      /\ req[r].cb \in {"charged", "done"}}

DecrementOnlyAfterDelivery ==
    [][/\ \A i \in 1..Len(store) :
             ( /\ Len(store') = Len(store)
               /\ RemainingOf(store'[i]) < RemainingOf(store[i]) )
             => \E r \in Requests :
                   /\ req[r].stream = "sent"
                   /\ req[r].userToken = {store[i].token}
                   /\ ~req[r].charged
                   /\ req'[r].charged
       /\ \A r \in Requests :
             /\ req'[r].charged => req'[r].stream = "sent"
             /\ (req[r].cb = "none" /\ req'[r].cb # "none"
                 /\ req[r].stream # "sent") => store' = store
      ]_vars

DecrementOnlyAfterDeliveryWitness ==
    \E r \in Requests :
        /\ req[r].stream = "failed"
        /\ req[r].cb = "done"
        /\ ~req[r].charged
        /\ \A t \in req[r].userToken :
              HasRecord(t) /\ RemainingOf(RecordOf(t)) = IssuedQuota(t)

\* C5: every token record has quota_remaining >= 0 in every reachable state
\* (relational: allowed_requests >= 0; JSON: used_requests <= allowed_requests).
QuotaNeverNegative ==
    \A i \in 1..Len(store) : RemainingOf(store[i]) >= 0

\* C6: authenticateToken decides by the first failing check, in the order
\* header missing (401), signature garbled or expired (401, store not
\* consulted), no store record (403), remaining quota <= 0 (402); only
\* otherwise is the handler called, with userToken and the decoded email
\* attached.  A rejected request never reaches the handler.
AuthDecidesInOrder ==
    [][\A r \in Requests :
         /\ AuthStep(r) =>
              IF req[r].header = {}
              THEN /\ req'[r].res = Json(401, "API token is required")
                   /\ ~req'[r].consulted
                   /\ req'[r].pc = "done"
              ELSE \A t \in req[r].header :
                IF ~t.sig \/ now >= t.iat + TokenTtl
                THEN /\ req'[r].res = Json(401, "Invalid or expired token")
                     /\ ~req'[r].consulted
                     /\ req'[r].pc = "done"
                ELSE IF ~HasRecord(t)
                THEN /\ req'[r].res = Json(403, "Invalid or revoked token")
                     /\ req'[r].pc = "done"
                ELSE IF RecordOf(t).expires_at < now
                THEN req'[r].pc = "done"
                ELSE IF RemainingOf(RecordOf(t)) <= 0
                THEN /\ req'[r].res = Json(402, "Request limit exceeded")
                     /\ req'[r].pc = "done"
                ELSE /\ req'[r].res.status \notin {401, 402, 403}
                     /\ req'[r].userToken = {t}
                     /\ req'[r].userEmail = t.email
                     /\ req'[r].pc \in {"validate", "launch", "done"}
         /\ Rejected(r) =>
              /\ req'[r] = req[r]
              /\ req[r].pc = "done"
              /\ req[r].userToken = {}
              /\ req[r].browser = "none"
      ]_vars

AuthDecidesInOrderWitness ==
    \E r \in Requests :
        /\ req[r].res = Json(401, "Invalid or expired token")
        /\ \E t \in req[r].header : t.sig /\ HasRecord(t)

\* C7: a credential whose store record has expires_at in the past is
\* treated exactly like a credential with no store record: getToken returns
\* no record and validation answers 403, whatever quota the record holds
\* and although the signature still verifies.
ExpiredRecordIsAbsent ==
    [][\A r \in Requests :
         ( /\ AuthStep(r)
           /\ \E t \in req[r].header :
                 /\ JwtVerifies(t, now)
                 /\ HasRecord(t)
                 /\ RecordOf(t).expires_at < now )
         => /\ req'[r].res = Json(403, "Invalid or revoked token")
            /\ req'[r].res = authenticateToken(req[r].header, <<>>, now).res
            /\ req'[r].pc = "done"
            /\ \A t \in req[r].header : getToken(store, t, now) = {}
      ]_vars

ExpiredRecordIsAbsentWitness ==
    \E r \in Requests :
        /\ req[r].res.status = 403
        /\ \E t \in req[r].header :
              /\ JwtVerifies(t, now)
              /\ HasRecord(t)
              /\ RecordOf(t).expires_at < now
              /\ RemainingOf(RecordOf(t)) > 0

AdminMatches(b) == b.adminEmail = ADMIN_EMAIL /\ b.adminPass = ADMIN_PASS

\* C8: a generate-token request with matching admin credentials, an email
\* and a positive allowedRequests is answered 200 with a credential whose
\* embedded owner is the requested email; the store then holds a record for
\* that credential with remaining requests equal to allowedRequests, and a
\* following GET /validate-token reports that email and that remaining count.
GenerateTokenIssuesCredential ==
    admin.op = "generate" =>
      \A b \in admin.body :
        ( /\ AdminMatches(b)
          /\ b.email # {}
          /\ \E n \in b.allowedRequests : n > 0 )
        => /\ admin.res.status = 200
           /\ admin.res.allowedRequests = b.allowedRequests
           /\ \E t \in admin.res.token :
                 /\ {t.email} = b.email
                 /\ \E d \in getToken(store, t, now) :
                       {RemainingOf(d)} = b.allowedRequests
                 /\ authenticateToken({t}, store, now).res.status = 0
                 /\ backend = "ts" =>
                      /\ validateToken({t}, store, now).status = 200
                      /\ {validateToken({t}, store, now).email} = b.email
                      /\ {validateToken({t}, store, now).remaining}
                           = b.allowedRequests

\* C9: generate-token creates a store record only when the admin email and
\* password equal the configured values and email and allowedRequests are
\* present: wrong admin credentials give 401 "Invalid admin credentials"
\* whatever the other fields are, a missing email or allowedRequests with
\* valid admin credentials gives 400, and in both cases the store is
\* unchanged and no credential is returned; /admin/tokens with wrong admin
\* credentials gives 401 and returns no token list.
AdminRejectsWithoutEffect ==
    [][\A b \in admin'.body :
         /\ ~AdminMatches(b) =>
              /\ admin'.res = AdminJson(401, "Invalid admin credentials")
              /\ store' = store
              /\ issued' = issued
         /\ ( /\ admin'.op = "generate"
              /\ AdminMatches(b)
              /\ b.email = {} \/ b.allowedRequests = {} )
            => /\ admin'.res.status = 400
               /\ admin'.res.token = {}
               /\ store' = store
               /\ issued' = issued
         /\ (store' # store \/ admin'.res.token # {}) =>
              /\ admin'.op = "generate"
              /\ AdminMatches(b)
              /\ b.email # {}
              /\ b.allowedRequests # {}
         /\ admin'.res.listed # {} => admin'.op = "tokens" /\ AdminMatches(b)
      ]_vars

AdminRejectsWithoutEffectWitness ==
    /\ admin.op = "generate"
    /\ admin.res = AdminJson(401, "Invalid admin credentials")
    /\ \E b \in admin.body :
          /\ b.adminEmail = ADMIN_EMAIL
          /\ b.adminPass # ADMIN_PASS
          /\ b.email # {}
          /\ \E n \in b.allowedRequests : n > 0
    /\ store # <<>>

\* the steps of the try block that can fail
FailureSteps == DriverStages \cup {"launch", "timeout", "videoSrc"}

ArtifactEventuallyDeleted ==
    \A r \in Requests :
        (req[r].stream \in {"sent", "failed"}) ~> (req[r].file = "deleted")

\* the step in which request r runs one iteration of its poll loop
PollStep(r) ==
    /\ req[r].pc = "polling"
    /\ \/ harvest'[r].polls = harvest[r].polls + 1
       \/ req'[r].pc = "videoSrc"
       \/ req'[r].pc = "catch" /\ req'[r].error = "timeout"

\* the files newer than the snapshot of request r whose name has no
\* in-progress suffix (every file, when the snapshot found the directory
\* empty)
Qualifying(r) ==
    {file \in dir :
        /\ ~file.partial
        /\ \/ harvest[r].initialLatest = {}
           \/ \E i \in harvest[r].initialLatest : file.time > i.time}

\* C13: given the snapshot time T of a request, whenever the directory
\* holds a file with modification time > T and no in-progress suffix, the
\* poll selects such a file, and it never selects a file with modification
\* time <= T or with an in-progress suffix; also when a newer in-progress
\* file is in the directory at the same time.
PollSelectsQualifying ==
    [][\A r \in Requests :
         PollStep(r) =>
           /\ harvest'[r].downloadedFile \subseteq Qualifying(r)
           /\ Qualifying(r) # {} => harvest'[r].downloadedFile # {}
      ]_vars

AuthBeforeBody ==
    [][\A r \in Requests :
         /\ (AuthStep(r) /\ req[r].route = "tiktok") =>
              /\ req[r].header = {}
                   => req'[r].res = Json(401, "API token is required")
              /\ authenticateToken(req[r].header, store, now).res.status # 0
                   => req'[r].res.status \in {401, 402, 403}
              /\ ( /\ authenticateToken(req[r].header, store, now).res.status = 0
                   /\ ~req[r].url )
                   => /\ req'[r].res = Json(400, "URL is required")
                      /\ req'[r].pc = "done"
                      /\ req'[r].browser = "none"
                      /\ store' = store
         /\ req[r].res.status = 400 =>
              /\ req'[r] = req[r]
              /\ req[r].userToken # {}
              /\ req[r].browser = "none"
              /\ ~req[r].charged
      ]_vars

AuthBeforeBodyWitness ==
    \E r, p \in Requests :
        /\ req[r].route = "tiktok"
        /\ req[r].header = {}
        /\ req[r].url
        /\ req[r].res = Json(401, "API token is required")
        /\ req[p].route = "tiktok"
        /\ ~req[p].url
        /\ req[p].res = Json(400, "URL is required")
        /\ \A t \in req[p].userToken :
              HasRecord(t) /\ RemainingOf(RecordOf(t)) = IssuedQuota(t)

\* C16: GET /validate-token is read-only: no step of a validate-token
\* request changes the store, so any number of calls leaves the remaining
\* requests as they were; a successful call reports the owner email, the
\* current remaining requests and the expiry of the store record.
ValidateTokenReadsOnly ==
    [][\A r \in Requests :
         (req'[r] # req[r] /\ req'[r].route = "validate") =>
           /\ store' = store
           /\ (req'[r].res.status = 200) =>
                \A t \in req[r].userToken :
                   /\ HasRecord(t)
                   /\ req'[r].res.email = RecordOf(t).email
                   /\ req'[r].res.remaining = RemainingOf(RecordOf(t))
                   /\ req'[r].res.expires_at = RecordOf(t).expires_at
      ]_vars

ValidateTokenReadsOnlyWitness ==
    /\ \A r \in Requests :
          /\ req[r].route = "validate"
          /\ req[r].res.status = 200
          /\ \A t \in req[r].userToken :
                /\ HasRecord(t)
                /\ req[r].res.remaining = IssuedQuota(t)
                /\ RemainingOf(RecordOf(t)) = IssuedQuota(t)
    /\ req[1].header = req[2].header

\* C17: GET /validate-token answers only with 200, 401 or 403: a credential
\* whose signature verifies and whose store record exists and is unexpired
\* gets 200 with its remaining requests, whatever that count is (0
\* included); 401 only for a missing, invalid or expired credential, 403
\* only for a revoked one.
ValidateTokenAnswers ==
    [][\A r \in Requests :
         req'[r].route = "validate" =>
           /\ req'[r].res.status \in {0, 200, 401, 403}
           /\ ( /\ AuthStep(r)
                /\ \E t \in req[r].header :
                      /\ JwtVerifies(t, now)
                      /\ HasRecord(t)
                      /\ ~(RecordOf(t).expires_at < now) )
               => req'[r].pc = "validate"
           /\ (req[r].res.status = 0 /\ req'[r].res.status = 401)
               => \A t \in req[r].header : ~JwtVerifies(t, now)
           /\ (req[r].res.status = 0 /\ req'[r].res.status = 403)
               => \A t \in req[r].header :
                     JwtVerifies(t, now) /\ getToken(store, t, now) = {}
      ]_vars

\* the snapshot of request r has been taken
SnapshotTaken(r) ==
    req[r].pc \in {"polling", "videoSrc", "closing", "done"}
      \/ (req[r].pc = "catch" /\ req[r].error = "timeout")

\* C18: in every /tiktok request the snapshot of the most recently
\* modified file of the download directory is taken before the click on
\* "Download video" is dispatched, so that a file the browser writes after
\* the click is always newer than the snapshot.
SnapshotBeforeClick ==
    \A r \in Requests :
        /\ harvest[r].download # "none" => req[r].pc # "snapshot"
        /\ SnapshotTaken(r) =>
              \A file \in dir, i \in harvest[r].initialLatest :
                  file.owner = r => file.time > i.time

\* the deliveries made with a credential
Deliveries(token) ==
    {r \in Requests : req[r].userToken = {token} /\ req[r].stream = "sent"}

\* C19: requests that use one credential concurrently race on
\* read-then-decrement: the quota check of authenticateToken writes nothing
\* and looks at the stored count only, and the decrement of the delivery
\* callback is applied whatever the count is; with remaining quota 1 two
\* overlapping requests both pass and both are delivered.
ReadThenDecrementUnguarded ==
    [][\A r \in Requests :
         /\ AuthStep(r) =>
              /\ store' = store
              /\ \A t \in req[r].header :
                    ( /\ JwtVerifies(t, now)
                      /\ HasRecord(t)
                      /\ ~(RecordOf(t).expires_at < now)
                      /\ RemainingOf(RecordOf(t)) > 0 )
                    => req'[r].userToken = {t}
         /\ ( /\ req[r].stream = "sent"
              /\ req[r].cb = "none"
              /\ req'[r].cb # "none" )
            => \A t \in req[r].userToken :
                  HasRecord(t) =>
                    /\ Len(store') = Len(store)
                    /\ RemainingOf(store'[FindIndex(store, t, 1)])
                         = RemainingOf(RecordOf(t)) - 1
      ]_vars

ReadThenDecrementUnguardedWitness ==
    \E t \in IssuedTokens :
        /\ TimesIssued(t) = 1
        /\ IssuedQuota(t) = 1
        /\ Cardinality(Deliveries(t)) = 2
        /\ \A r \in Deliveries(t) : req[r].cb = "done"
        /\ HasRecord(t)
        /\ RemainingOf(RecordOf(t)) = -1

\* C20: the requests in flight share the one download directory: the scan
\* of a request reads every file of it, whoever wrote it, so the file a
\* poll selects is the newest of the whole directory, and a request can
\* stream a file its own click did not produce.
SharedDirectoryScan ==
    [][\A r \in Requests :
         /\ (req[r].pc = "snapshot" /\ req'[r].pc = "polling") =>
              \A i \in harvest'[r].initialLatest :
                  i \in dir /\ \A other \in dir : other.time <= i.time
         /\ (PollStep(r) /\ harvest'[r].downloadedFile # {}) =>
              \A file \in harvest'[r].downloadedFile :
                  file \in dir /\ \A other \in dir : other.time <= file.time
      ]_vars

SharedDirectoryScanWitness ==
    \E r \in Requests :
        /\ req[r].stream = "sent"
        /\ req[r].res.status = 200
        /\ \E file \in harvest[r].downloadedFile : file.owner # r
        /\ harvest[r].download \in {"requested", "writing", "written"}


\* C21: the download session is destroyed before the response completes:
\* on the success path the browser is closed and the temporary file removed
\* before the response to the client is complete, and on each error exit the
\* browser is closed before the 500 is sent.
SessionDestroyedBeforeResponse ==
    \A r \in Requests :
        /\ req[r].stream = "sent"
              => req[r].browser = "closed" /\ req[r].file = "deleted"
        /\ req[r].res.status = 500 => req[r].browser # "open"

\* C21, as the code orders it: on an error exit the browser is closed when
\* the 500 is sent; on the success path the browser is closed only after
\* res.download has started the transfer, and the temporary file is removed
\* only after the transfer has ended.
SessionDestroyedAroundResponse ==
    \A r \in Requests :
        /\ req[r].res.status = 500 => req[r].browser # "open"
        /\ (req[r].browser = "closed" /\ req[r].error = "")
              => req[r].stream # "none"
        /\ req[r].file = "deleted" => req[r].stream \in {"sent", "failed"}

SessionDestroyedAroundResponseWitness ==
    /\ req[1].stream = "sent"
    /\ req[1].browser = "open"
    /\ req[1].file = "present"
    /\ req[2].res.status = 500
    /\ req[2].browser = "closed"

\* C22: on an error exit after an artifact was harvested (the video-source
\* evaluation fails between the poll loop and the streaming) the harvested
\* temporary file is removed before the handler finishes: no failed request
\* leaves its harvested file behind.
HarvestedFileRemovedOnError ==
    \A r \in Requests :
        (req[r].pc = "done" /\ req[r].error # "") => req[r].file # "present"

\* C23: the "Download video" lookup tries the primary locator first and the
\* fallback locator only after the primary has timed out, one after the other
\* and never at the same time; the request fails for this step only when both
\* locators fail, and whenever either locator finds the entry the synthetic
\* click is dispatched on it.
TwoTierLookup ==
    [][\A r \in Requests :
         /\ (req[r].pc # "waitFallback" /\ req'[r].pc = "waitFallback")
              => /\ req[r].pc = "waitPrimary"
                 /\ "primary" \notin harvest[r].page
         /\ (req[r].pc \in LookupPcs /\ req'[r].pc = "catch")
              => /\ req[r].pc = "waitFallback"
                 /\ "fallback" \notin harvest[r].page
         /\ (req[r].pc \in {"waitPrimary", "waitFallback"}
               /\ req'[r].pc = "queryPrimary")
              => harvest[r].page # {}
         /\ (req[r].pc \in {"queryPrimary", "queryFallback", "located"}
               /\ req'[r] # req[r])
              => req'[r].pc \in {"queryFallback", "located", "poll"}
         /\ (req[r].pc = "located" /\ req'[r].pc # "located")
              => /\ req'[r].pc = "poll"
                 /\ harvest'[r].clicked = harvest[r].option
                 /\ harvest[r].option # {}
      ]_vars

\* C23, as the code runs it: the fallback wait starts only after the primary
\* wait has timed out; a wait that finds the entry is followed by a fresh
\* query, primary first and fallback only when the primary query returned
\* nothing; the request fails for this step when both waits time out or when
\* both queries return nothing; the click is dispatched on the element a
\* query returned.
TwoTierLookupThenQuery ==
    [][\A r \in Requests :
         /\ (req[r].pc # "waitFallback" /\ req'[r].pc = "waitFallback")
              => /\ req[r].pc = "waitPrimary"
                 /\ "primary" \notin harvest[r].page
         /\ (req[r].pc # "queryFallback" /\ req'[r].pc = "queryFallback")
              => /\ req[r].pc = "queryPrimary"
                 /\ "primary" \notin harvest[r].page
         /\ (req[r].pc \in LookupPcs /\ req'[r].pc = "catch")
              => /\ "fallback" \notin harvest[r].page
                 /\ \/ req[r].pc = "waitFallback" /\ req'[r].error = "menu"
                    \/ req[r].pc = "queryFallback" /\ req'[r].error = "option"
         /\ (req[r].pc \in {"waitPrimary", "waitFallback"}
               /\ req'[r].pc = "queryPrimary")
              => harvest[r].page # {}
         /\ (req[r].pc = "queryPrimary" /\ req'[r] # req[r]
               /\ "primary" \in harvest[r].page)
              => /\ req'[r].pc = "located"
                 /\ harvest'[r].option = {"primary"}
         /\ (req[r].pc = "queryFallback" /\ req'[r] # req[r]
               /\ "fallback" \in harvest[r].page)
              => /\ req'[r].pc = "located"
                 /\ harvest'[r].option = {"fallback"}
         /\ (req[r].pc = "located" /\ req'[r].pc # "located")
              => /\ req'[r].pc = "poll"
                 /\ harvest'[r].clicked = harvest[r].option
                 /\ harvest[r].option # {}
      ]_vars

TwoTierLookupThenQueryWitness ==
    /\ req[1].pc = "poll"
    /\ harvest[1].clicked = {"fallback"}
    /\ req[2].pc = "done"
    /\ req[2].error = "option"
    /\ req[2].res.status = 500

\* C24: provided every sub-wait returns or times out, every authenticated
\* /tiktok request reaches a terminal state in which a response (the file or
\* a 500) has been sent: no handler finishes and leaves its request without
\* a response.
FinishedRequestAnswered ==
    \A r \in Requests :
        (req[r].pc = "done" /\ req[r].route = "tiktok" /\ req[r].cb # "none")
            => req[r].res.status # 0

StoreFailureAnswers500 ==
    /\ (admin.op = "generateWriteFails"
          /\ \A b \in admin.body :
                /\ AdminMatches(b)
                /\ ~FalsyText(b.email) /\ ~FalsyNumber(b.allowedRequests))
         => /\ admin.res.status = 500
            /\ admin.res.error = "Failed to store token"
            /\ admin.res.token = {}
    /\ \A i \in 1..Len(issued) : HasRecord(issued[i].token)

\* C27: validation fails closed on store errors: when the lookup raises,
\* getToken yields no record and authenticateToken rejects with 403; a store
\* failure never lets a request reach the automation stage or the
\* validate-token handler.
LookupFailureRejects ==
    \A r \in Requests :
        req[r].error = "lookup"
            => /\ req[r].pc = "done"
               /\ req[r].res = Json(403, "Invalid or revoked token")
               /\ req[r].userToken = {}
               /\ req[r].browser = "none"

LookupFailureRejectsWitness ==
    \E r \in Requests :
        /\ req[r].error = "lookup"
        /\ req[r].res.status = 403
        /\ \E t \in req[r].header :
              /\ HasRecord(t)
              /\ ~QuotaExhausted(RecordOf(t))
              /\ getToken(store, t, now) # {}

\* C28: generate-token never creates a record whose initial quota is zero or
\* negative: every request with allowedRequests <= 0 is rejected with 400
\* and leaves the store unchanged.
NonPositiveQuotaRejected ==
    /\ (admin.op = "generate"
          /\ \A b \in admin.body :
                /\ AdminMatches(b)
                /\ \E n \in b.allowedRequests : n <= 0)
         => admin.res.status = 400
    /\ \A i \in 1..Len(store) : store[i].allowed_requests > 0

\* C29: at every instant, the instant now = expires_at included, a sweep
\* removes exactly the records getToken treats as expired and keeps the
\* others, with the JSON store and with the relational store.
SweepRemovesExactlyExpired ==
    \A i \in 1..Len(store) :
        LET rec == store[i]
        IN  (getToken(<<rec>>, rec.token, now) = {})
                <=> (cleanupExpired(<<rec>>, now) = <<>>)

\* C30: the two quota representations (JSON store: used_requests counts up,
\* reject when used_requests >= allowed_requests; relational store:
\* allowed_requests counts down, reject when it is <= 0), run side by side on
\* the same sequence of issue, validate and successful-delivery operations,
\* give the same accept / 402 decision at every step and stay related by
\* remaining = allowed_requests - used_requests.
QuotaRepresentationsAgree ==
    /\ pair.op = "validate" => pair.res.ts = pair.res.js
    /\ \A token \in PairTokens :
          LET i == FindIndex(pair.ts, token, 1)
              j == FindIndex(pair.js, token, 1)
          IN  /\ i # 0
              /\ j # 0
              /\ pair.ts[i].allowed_requests
                    = pair.js[j].allowed_requests - pair.js[j].used_requests
              /\ QuotaExhaustedIn("ts", pair.ts[i])
                    <=> QuotaExhaustedIn("js", pair.js[j])

QuotaRepresentationsAgreeWitness ==
    /\ pair.op = "validate"
    /\ pair.res.ts = 402
    /\ pair.res.js = 402
    /\ \E j \in 1..Len(pair.js) :
          /\ pair.js[j].used_requests = pair.js[j].allowed_requests
          /\ pair.js[j].used_requests > 0
====
